---- MODULE Spec2Model ----
(***************************************************************************)
(* scripts/configure-storage.py: load a JSON configuration file, overwrite *)
(* its 'storage' key with the optimized-local adapter block, and write the *)
(* document back to the same path.                                         *)
(*                                                                         *)
(* A file's content is a sequence of text atoms (indivisible fragments of  *)
(* text: one punctuation mark, one blank, one character of a string, one   *)
(* escape sequence, one literal).  json.load and json.dump are modelled by *)
(* a recursive-descent parser and by the indent=2 encoder over such text.  *)
(***************************************************************************)
EXTENDS Integers, Sequences, FiniteSets, TLC

(***************************************************************************)
(* Bounds of the model.                                                    *)
(***************************************************************************)
MaxPathLen == 2
MaxSiblings == 2

(***************************************************************************)
(* JSON values as Python holds them after json.load.  A dict is the        *)
(* insertion-ordered sequence of its <<key, value>> pairs.                 *)
(***************************************************************************)
Str(s) == [t |-> "str", s |-> s]
Int_(n) == [t |-> "int", n |-> n]
Flt(r) == [t |-> "float", r |-> r]
Bool(b) == [t |-> "bool", b |-> b]
Null == [t |-> "null"]
Arr(a) == [t |-> "arr", a |-> a]
Obj(m) == [t |-> "obj", m |-> m]

IsObj(v) == v.t = "obj"

Keys(m) == [j \in 1..Len(m) |-> m[j][1]]

HasKey(m, k) == \E j \in 1..Len(m) : m[j][1] = k

IndexOf(m, k) == CHOOSE j \in 1..Len(m) : m[j][1] = k

Get(m, k) == m[IndexOf(m, k)][2]

\* variant: every assignment appends a pair, also for a key already present
SetItemAppend(m, k, v) == Append(m, <<k, v>>)

\* variant: an object assigned over an object is merged into it (dict.update)
SetItemMerge(m, k, v) ==
    IF HasKey(m, k)
      THEN LET old == Get(m, k) IN
           IF IsObj(old) /\ IsObj(v)
             THEN [m EXCEPT ![IndexOf(m, k)] =
                     <<k, Obj(SelectSeq(old.m, LAMBDA p : ~HasKey(v.m, p[1])) \o v.m)>>]
             ELSE [m EXCEPT ![IndexOf(m, k)] = <<k, v>>]
      ELSE Append(m, <<k, v>>)

\* variant: an assigned key moves to the end (del, then insert)
SetItemMoveToEnd(m, k, v) == Append(SelectSeq(m, LAMBDA p : p[1] # k), <<k, v>>)

\* dict.__setitem__: an existing key keeps its position, a new key is appended
SetItem(m, k, v) ==
    IF HasKey(m, k)
      THEN [m EXCEPT ![IndexOf(m, k)] = <<k, v>>]
      ELSE Append(m, <<k, v>>)

\* the pairs of m whose key is not k, in their order
Without(m, k) == SelectSeq(m, LAMBDA p : p[1] # k)

(***************************************************************************)
(* Text atoms.                                                             *)
(***************************************************************************)
QUOTE == "\""
NL == "\n"
SP == " "
Whitespace == {SP, NL}

\* characters a string value is made of (a word stands for its characters)
Chars == {"/", "v", "e'", "d", "x", "url", "server", "port", "storage",
          "active", "optimized-local", "storagePath", "sizes", "quality",
          "keepOriginal", "s3", "bucket", "b"}

\* escape sequences json.load decodes inside a string literal
Unescape(a) ==
    CASE a = "\\u00e9" -> "e'"
      [] a = "\\/" -> "/"
      [] OTHER -> a

Escapes == {"\\u00e9", "\\/"}

\* json.dump(ensure_ascii=True): a non-ASCII character is written escaped
EscapeChar(c) == IF c = "e'" THEN "\\u00e9" ELSE c

\* number literals and the values int()/float() give them
IntLits == {"0", "1", "82", "600", "1000", "1600", "2000", "2368"}

IntOf(a) ==
    CASE a = "0" -> 0 [] a = "1" -> 1 [] a = "82" -> 82 [] a = "600" -> 600
      [] a = "1000" -> 1000 [] a = "1600" -> 1600 [] a = "2000" -> 2000
      [] a = "2368" -> 2368

\* int.__repr__
IntRepr(n) == CHOOSE a \in IntLits : IntOf(a) = n

FloatLits == {"1e2", "100.0", "0.5"}

\* float.__repr__ of the parsed literal
FloatOf(a) == IF a = "1e2" THEN "100.0" ELSE a

(***************************************************************************)
(* json.dump(config, f, indent=2)                                          *)
(***************************************************************************)
RECURSIVE Spaces(_)
Spaces(n) == IF n = 0 THEN <<>> ELSE <<SP>> \o Spaces(n - 1)

NewlineIndent(level) == <<NL>> \o Spaces(2 * level)

EncodeStr(s) == <<QUOTE>> \o [j \in 1..Len(s) |-> EscapeChar(s[j])] \o <<QUOTE>>

RECURSIVE Encode(_, _), EncodeItems(_, _, _), EncodeElems(_, _, _)
Encode(v, level) ==
    CASE v.t = "str" -> EncodeStr(v.s)
      [] v.t = "int" -> <<IntRepr(v.n)>>
      [] v.t = "float" -> <<v.r>>
      [] v.t = "bool" -> IF v.b THEN <<"true">> ELSE <<"false">>
      [] v.t = "null" -> <<"null">>
      [] v.t = "arr" ->
           IF v.a = <<>> THEN <<"[", "]">>
           ELSE <<"[">> \o EncodeElems(v.a, 1, level + 1)
                        \o NewlineIndent(level) \o <<"]">>
      [] v.t = "obj" ->
           IF v.m = <<>> THEN <<"{", "}">>
           ELSE <<"{">> \o EncodeItems(v.m, 1, level + 1)
                        \o NewlineIndent(level) \o <<"}">>

EncodeElems(a, j, level) ==
    IF j > Len(a) THEN <<>>
    ELSE (IF j > 1 THEN <<",">> ELSE <<>>)
         \o NewlineIndent(level) \o Encode(a[j], level)
         \o EncodeElems(a, j + 1, level)

EncodeItems(m, j, level) ==
    IF j > Len(m) THEN <<>>
    ELSE (IF j > 1 THEN <<",">> ELSE <<>>)
         \o NewlineIndent(level) \o EncodeStr(m[j][1]) \o <<":", SP>>
         \o Encode(m[j][2], level)
         \o EncodeItems(m, j + 1, level)

Dump(v) == Encode(v, 0)

(***************************************************************************)
(* json.load(f): the parse of a whole text.  A parse result is             *)
(* [ok, v, i]: success, the value, the index after it.                     *)
(***************************************************************************)
Fail == [ok |-> FALSE, v |-> Null, i |-> 0]
Done(v, i) == [ok |-> TRUE, v |-> v, i |-> i]

At(txt, i) == IF i \in 1..Len(txt) THEN txt[i] ELSE "<eof>"

RECURSIVE SkipWs(_, _)
SkipWs(txt, i) == IF At(txt, i) \in Whitespace THEN SkipWs(txt, i + 1) ELSE i

\* the body of a string literal, from index i (after the opening quote)
RECURSIVE ScanString(_, _, _)
ScanString(txt, i, acc) ==
    LET a == At(txt, i) IN
    CASE a = QUOTE -> Done(acc, i + 1)
      [] a \in Chars \cup Escapes -> ScanString(txt, i + 1, Append(acc, Unescape(a)))
      [] OTHER -> [ok |-> FALSE, v |-> <<>>, i |-> 0]

RECURSIVE ParseValue(_, _), ParseItems(_, _, _), ParseElems(_, _, _)
ParseValue(txt, i) ==
    LET a == At(txt, i) IN
    CASE a = QUOTE ->
           LET s == ScanString(txt, i + 1, <<>>) IN
           IF s.ok THEN Done(Str(s.v), s.i) ELSE Fail
      [] a = "{" ->
           LET j == SkipWs(txt, i + 1) IN
           IF At(txt, j) = "}" THEN Done(Obj(<<>>), j + 1)
           ELSE ParseItems(txt, j, <<>>)
      [] a = "[" ->
           LET j == SkipWs(txt, i + 1) IN
           IF At(txt, j) = "]" THEN Done(Arr(<<>>), j + 1)
           ELSE ParseElems(txt, j, <<>>)
      [] a = "true" -> Done(Bool(TRUE), i + 1)
      [] a = "false" -> Done(Bool(FALSE), i + 1)
      [] a = "null" -> Done(Null, i + 1)
      [] a \in IntLits -> Done(Int_(IntOf(a)), i + 1)
      [] a \in FloatLits -> Done(Flt(FloatOf(a)), i + 1)
      [] OTHER -> Fail

\* members of an object from index i, where a key must start
ParseItems(txt, i, acc) ==
    IF At(txt, i) # QUOTE THEN Fail
    ELSE
      LET k == ScanString(txt, i + 1, <<>>) IN
      IF ~k.ok THEN Fail
      ELSE
        LET c == SkipWs(txt, k.i) IN
        IF At(txt, c) # ":" THEN Fail
        ELSE
          LET r == ParseValue(txt, SkipWs(txt, c + 1)) IN
          IF ~r.ok THEN Fail
          ELSE
            LET acc2 == SetItem(acc, k.v, r.v)
                e == SkipWs(txt, r.i)
            IN CASE At(txt, e) = "}" -> Done(Obj(acc2), e + 1)
                 [] At(txt, e) = "," -> ParseItems(txt, SkipWs(txt, e + 1), acc2)
                 [] OTHER -> Fail

\* elements of an array from index i, where a value must start
ParseElems(txt, i, acc) ==
    LET r == ParseValue(txt, i) IN
    IF ~r.ok THEN Fail
    ELSE
      LET acc2 == Append(acc, r.v)
          e == SkipWs(txt, r.i)
      IN CASE At(txt, e) = "]" -> Done(Arr(acc2), e + 1)
           [] At(txt, e) = "," -> ParseElems(txt, SkipWs(txt, e + 1), acc2)
           [] OTHER -> Fail

\* json.loads: one value, surrounded by blanks only; anything else raises
Load(txt) ==
    LET r == ParseValue(txt, SkipWs(txt, 1)) IN
    IF r.ok /\ SkipWs(txt, r.i) = Len(txt) + 1 THEN [ok |-> TRUE, v |-> r.v]
    ELSE [ok |-> FALSE, v |-> Null]

(***************************************************************************)
(* The inputs: command lines and initial file systems.                     *)
(***************************************************************************)
Prog == <<"configure-storage.py">>

BasePath == <<"/", "v", "e'", "d">>

Min(a, b) == IF a < b THEN a ELSE b

\* storage paths of 1..MaxPathLen characters
StoragePaths == {SubSeq(BasePath, 1, n) : n \in 1..Min(MaxPathLen, Len(BasePath))}

\* config files; the second one is also one of the storage paths
ConfigPaths == {<<"x">>, <<"/", "v">>}

FilePaths == ConfigPaths \cup StoragePaths

\* sys.argv with zero, one, two and three arguments
Argvs ==
    {<<Prog>>} \cup {<<Prog, c>> : c \in ConfigPaths}
      \cup {<<Prog, c, p>> : c \in ConfigPaths, p \in StoragePaths}
      \cup {<<Prog, c, p, p>> : c \in ConfigPaths, p \in StoragePaths}

K(w) == <<w>>

Siblings ==
    << <<K("url"), Str(<<"/", "x">>)>>,
       <<K("server"), Obj(<< <<K("port"), Int_(2368)>> >>)>>,
       <<K("b"), Arr(<<Flt("100.0"), Str(<<"e'">>), Null, Bool(TRUE), Arr(<<>>), Obj(<<>>)>>)>> >>

\* earlier contents of the 'storage' key: a scalar, an array, another adapter
OldStorage ==
    { Str(K("s3")),
      Arr(<<Int_(1)>>),
      Obj(<< <<K("active"), Str(K("s3"))>>,
             <<K("s3"), Obj(<< <<K("bucket"), Str(K("b"))>> >>)>>,
             <<K("optimized-local"), Obj(<< <<K("quality"), Int_(1)>>,
                                            <<K("bucket"), Str(K("b"))>> >>)>> >>) }

InsertAt(m, k, p) == SubSeq(m, 1, k) \o <<p>> \o SubSeq(m, k + 1, Len(m))

\* objects of up to MaxSiblings keys, without or with a 'storage' key at any place
Docs ==
    LET Sib(n) == SubSeq(Siblings, 1, n) IN
    {Obj(Sib(n)) : n \in 0..Min(MaxSiblings, Len(Siblings))}
      \cup UNION {{Obj(InsertAt(Sib(n), k, <<K("storage"), sv>>)) : k \in 0..n, sv \in OldStorage}
                  : n \in 0..Min(MaxSiblings, Len(Siblings))}

\* the same document as another writer leaves it: no blanks, '/' escaped,
\* non-ASCII characters raw, floats in exponent form
Restyle(txt) ==
    LET Alt(a) == CASE a = "/" -> "\\/" [] a = "\\u00e9" -> "e'"
                    [] a = "100.0" -> "1e2" [] OTHER -> a
        bare == SelectSeq(txt, LAMBDA a : a \notin Whitespace)
    IN [j \in 1..Len(bare) |-> Alt(bare[j])]

Chop(txt) == SubSeq(txt, 1, Len(txt) - 1)

ObjectTexts ==
    {Dump(d) : d \in Docs} \cup {Restyle(Dump(d)) : d \in Docs}
      \cup { <<"{", QUOTE, "storage", QUOTE, ":", "1", ",", QUOTE, "url", QUOTE, ":",
               QUOTE, "x", QUOTE, ",", SP, QUOTE, "storage", QUOTE, ":", "0", "}", NL>> }

\* texts whose top level is not an object
ScalarTexts ==
    { <<"[", "1", "]">>, <<QUOTE, "x", QUOTE>>, <<"82">>, <<"null">>, <<"true">>, <<"0.5">> }

\* texts json.load rejects
BadTexts ==
    { <<>>, <<"not", SP, "json">>, <<"{", "}", SP, "{", "}">>,
      <<"{", QUOTE, "url", QUOTE, ":", "1", ",", "}">>,
      <<"{", QUOTE, "url", NL, QUOTE, ":", "1", "}">>,
      <<"[", "1", ",", "]">>, <<"{", "url", ":", "1", "}">> }
      \cup {Chop(Restyle(Dump(d))) : d \in Docs}

InitTexts == ObjectTexts \cup ScalarTexts \cup BadTexts

File(e, r, w, data) == [exists |-> e, r |-> r, w |-> w, data |-> data]

NoFile == File(FALSE, FALSE, FALSE, <<>>)

\* a file holding txt: readable and writable, read-only, or unreadable
FilesOf(txt) == {File(TRUE, TRUE, TRUE, txt), File(TRUE, TRUE, FALSE, txt),
                 File(TRUE, FALSE, TRUE, txt)}

OtherFile == File(TRUE, TRUE, TRUE, Restyle(Dump(Obj(SubSeq(Siblings, 1, 1)))))

\* file systems in which the file "x" is f
FsWith(f) ==
    [p \in FilePaths |-> IF p = <<"x">> THEN f
                         ELSE IF p = <<"/", "v">> THEN OtherFile ELSE NoFile]

(***************************************************************************)
(* State.                                                                  *)
(***************************************************************************)
VARIABLES
    fs,        \* the file system: path -> file
    diskFull,  \* whether a write to the disk fails
    argv,      \* sys.argv of each invocation
    pc,        \* where each invocation is
    config,    \* the local 'config' of configure_storage
    handle,    \* the file objects an invocation holds open
    stdout,    \* the lines an invocation printed
    exitCode,  \* its exit code, -1 while it runs
    err,       \* the exception that ended it, "" if none
    log,       \* the file operations an invocation attempted, in order
    wlog,      \* the truncations and writes of all invocations, in order
    fs0,       \* the file system before the first invocation
    atExit     \* the file system as each invocation left it

vars == <<fs, diskFull, argv, pc, config, handle, stdout, exitCode, err, log, wlog, fs0, atExit>>

Procs == DOMAIN pc

\* variant: the two arguments taken in the other order
ConfigFileSwapped(i) == argv[i][3]

config_file(i) == argv[i][2]

storage_path(i) == argv[i][3]

Terminated(i) == pc[i] \in {"exit0", "exit1"}

Op(op, path, ok) == [op |-> op, path |-> path, ok |-> ok]

(***************************************************************************)
(* configure_storage and the main block, one action per step.              *)
(***************************************************************************)
\* variant: the block without the fixed image sizes and with another quality
StorageConfigOther(path) ==
    Obj(<< <<<<"active">>, Str(<<"optimized-local">>)>>,
           <<<<"optimized-local">>,
             Obj(<< <<<<"storagePath">>, Str(path)>>,
                    <<<<"sizes">>, Arr(<<Int_(600), Int_(1000), Int_(1600)>>)>>,
                    <<<<"quality">>, Int_(0)>>,
                    <<<<"keepOriginal">>, Bool(TRUE)>> >>)>> >>)

\* the block assigned to config['storage']
StorageConfig(path) ==
    Obj(<< <<K("active"), Str(K("optimized-local"))>>,
           <<K("optimized-local"),
             Obj(<< <<K("storagePath"), Str(path)>>,
                    <<K("sizes"), Arr(<<Int_(600), Int_(1000), Int_(1600), Int_(2000)>>)>>,
                    <<K("quality"), Int_(82)>>,
                    <<K("keepOriginal"), Bool(TRUE)>> >>)>> >>)

UsageLine(prog) == <<"Usage:">> \o prog \o <<"<config_file>", "<storage_path>">>

SuccessLine == <<"Storage adapter configured successfully">>

\* variant: a write at the end of the file (append mode)
WriteAtEnd(old, txt) == old \o txt

\* a write of txt at offset 0 of a file holding old
WriteAt0(old, txt) == txt \o SubSeq(old, Len(txt) + 1, Len(old))

\* an uncaught exception ends the process with exit code 1
Raise(i, e) ==
    /\ pc' = [pc EXCEPT ![i] = "exit1"]
    /\ exitCode' = [exitCode EXCEPT ![i] = 1]
    /\ err' = [err EXCEPT ![i] = e]
    /\ atExit' = [atExit EXCEPT ![i] = fs]

\* if len(sys.argv) != 3: print usage; sys.exit(1)
Usage(i) ==
    /\ pc[i] = "main"
    /\ Len(argv[i]) # 3
    /\ stdout' = [stdout EXCEPT ![i] = Append(@, UsageLine(argv[i][1]))]
    /\ pc' = [pc EXCEPT ![i] = "exit1"]
    /\ exitCode' = [exitCode EXCEPT ![i] = 1]
    /\ atExit' = [atExit EXCEPT ![i] = fs]
    /\ UNCHANGED <<fs, diskFull, argv, config, handle, err, log, wlog, fs0>>

\* variant: the call is made with two or more arguments
CallAtLeast(i) ==
    /\ pc[i] = "main"
    /\ Len(argv[i]) >= 3
    /\ pc' = [pc EXCEPT ![i] = "open_r"]
    /\ UNCHANGED <<fs, diskFull, argv, config, handle, stdout, exitCode, err, log, wlog, fs0, atExit>>

\* configure_storage(sys.argv[1], sys.argv[2])
Call(i) ==
    /\ pc[i] = "main"
    /\ Len(argv[i]) = 3
    /\ pc' = [pc EXCEPT ![i] = "open_r"]
    /\ UNCHANGED <<fs, diskFull, argv, config, handle, stdout, exitCode, err, log, wlog, fs0, atExit>>

\* variant: the file is opened in mode 'w+', which truncates it before the read
OpenReadTruncating(i) ==
    /\ pc[i] = "open_r"
    /\ LET p == config_file(i)
           ok == fs[p].exists /\ fs[p].r
       IN /\ log' = [log EXCEPT ![i] = Append(@, Op("open_r", p, ok))]
          /\ IF ok
               THEN /\ handle' = [handle EXCEPT ![i] = @ \cup {[path |-> p, mode |-> "r"]}]
                    /\ fs' = [fs EXCEPT ![p].data = <<>>]
                    /\ pc' = [pc EXCEPT ![i] = "load"]
                    /\ UNCHANGED <<exitCode, err, atExit>>
               ELSE /\ Raise(i, IF fs[p].exists THEN "PermissionError" ELSE "FileNotFoundError")
                    /\ UNCHANGED <<fs, handle>>
    /\ UNCHANGED <<diskFull, argv, config, stdout, wlog, fs0>>

\* with open(config_file, 'r') as f:
OpenRead(i) ==
    /\ pc[i] = "open_r"
    /\ LET p == config_file(i)
           ok == fs[p].exists /\ fs[p].r
       IN /\ log' = [log EXCEPT ![i] = Append(@, Op("open_r", p, ok))]
          /\ IF ok
               THEN /\ handle' = [handle EXCEPT ![i] = @ \cup {[path |-> p, mode |-> "r"]}]
                    /\ pc' = [pc EXCEPT ![i] = "load"]
                    /\ UNCHANGED <<exitCode, err, atExit>>
               ELSE /\ Raise(i, IF fs[p].exists THEN "PermissionError" ELSE "FileNotFoundError")
                    /\ UNCHANGED handle
    /\ UNCHANGED <<fs, diskFull, argv, config, stdout, wlog, fs0>>

\* config = json.load(f)
LoadStep(i) ==
    /\ pc[i] = "load"
    /\ LET p == config_file(i)
           r == Load(fs[p].data)
       IN /\ log' = [log EXCEPT ![i] = Append(@, Op("read", p, r.ok))]
          /\ IF r.ok
               THEN /\ config' = [config EXCEPT ![i] = r.v]
                    /\ pc' = [pc EXCEPT ![i] = "close_r"]
                    /\ UNCHANGED err
               ELSE /\ err' = [err EXCEPT ![i] = "JSONDecodeError"]
                    /\ pc' = [pc EXCEPT ![i] = "close_r_exc"]
                    /\ UNCHANGED config
    /\ UNCHANGED <<fs, diskFull, argv, handle, stdout, exitCode, wlog, fs0, atExit>>

\* variant: the read handle is not released (open() without with or close())
CloseReadLeak(i) ==
    /\ pc[i] \in {"close_r", "close_r_exc"}
    /\ IF pc[i] = "close_r"
         THEN /\ pc' = [pc EXCEPT ![i] = "assign"]
              /\ UNCHANGED <<exitCode, err, atExit>>
         ELSE Raise(i, err[i])
    /\ UNCHANGED <<fs, diskFull, argv, config, handle, stdout, log, wlog, fs0>>

\* leaving the first with block, normally or with the exception of json.load
CloseRead(i) ==
    /\ pc[i] \in {"close_r", "close_r_exc"}
    /\ handle' = [handle EXCEPT ![i] = @ \ {[path |-> config_file(i), mode |-> "r"]}]
    /\ log' = [log EXCEPT ![i] = Append(@, Op("close_r", config_file(i), TRUE))]
    /\ IF pc[i] = "close_r"
         THEN /\ pc' = [pc EXCEPT ![i] = "assign"]
              /\ UNCHANGED <<exitCode, err, atExit>>
         ELSE Raise(i, err[i])
    /\ UNCHANGED <<fs, diskFull, argv, config, stdout, wlog, fs0>>

\* config['storage'] = {...}
Assign(i) ==
    /\ pc[i] = "assign"
    /\ IF IsObj(config[i])
         THEN /\ config' = [config EXCEPT ![i] =
                               Obj(SetItem(@.m, K("storage"), StorageConfig(storage_path(i))))]
              /\ pc' = [pc EXCEPT ![i] = "open_w"]
              /\ UNCHANGED <<exitCode, err, atExit>>
         ELSE /\ Raise(i, "TypeError")
              /\ UNCHANGED config
    /\ UNCHANGED <<fs, diskFull, argv, handle, stdout, log, wlog, fs0>>

\* with open(config_file, 'w') as f: creates or truncates the file
OpenWrite(i) ==
    /\ pc[i] = "open_w"
    /\ LET p == config_file(i)
           ok == ~fs[p].exists \/ fs[p].w
       IN /\ log' = [log EXCEPT ![i] = Append(@, Op("open_w", p, ok))]
          /\ IF ok
               THEN /\ fs' = [fs EXCEPT ![p] =
                                IF @.exists THEN [@ EXCEPT !.data = <<>>]
                                ELSE File(TRUE, TRUE, TRUE, <<>>)]
                    /\ handle' = [handle EXCEPT ![i] = @ \cup {[path |-> p, mode |-> "w"]}]
                    /\ wlog' = Append(wlog, <<i, "open_w">>)
                    /\ pc' = [pc EXCEPT ![i] = "dump"]
                    /\ UNCHANGED <<exitCode, err, atExit>>
               ELSE /\ Raise(i, "PermissionError")
                    /\ UNCHANGED <<fs, handle, wlog>>
    /\ UNCHANGED <<diskFull, argv, config, stdout, fs0>>

\* json.dump(config, f, indent=2)
DumpStep(i) ==
    /\ pc[i] = "dump"
    /\ LET p == config_file(i) IN
       /\ log' = [log EXCEPT ![i] = Append(@, Op("write", p, ~diskFull))]
       /\ IF ~diskFull
            THEN /\ fs' = [fs EXCEPT ![p].data = WriteAt0(@, Dump(config[i]))]
                 /\ wlog' = Append(wlog, <<i, "write">>)
                 /\ pc' = [pc EXCEPT ![i] = "close_w"]
                 /\ UNCHANGED err
            ELSE /\ err' = [err EXCEPT ![i] = "OSError"]
                 /\ pc' = [pc EXCEPT ![i] = "close_w_exc"]
                 /\ UNCHANGED <<fs, wlog>>
    /\ UNCHANGED <<diskFull, argv, config, handle, stdout, exitCode, fs0, atExit>>

\* variant: the exception of json.dump is swallowed and the script goes on
CloseWriteSwallow(i) ==
    /\ pc[i] \in {"close_w", "close_w_exc"}
    /\ handle' = [handle EXCEPT ![i] = @ \ {[path |-> config_file(i), mode |-> "w"]}]
    /\ log' = [log EXCEPT ![i] = Append(@, Op("close_w", config_file(i), TRUE))]
    /\ pc' = [pc EXCEPT ![i] = "confirm"]
    /\ UNCHANGED <<fs, diskFull, argv, config, stdout, exitCode, err, wlog, fs0, atExit>>

\* leaving the second with block, normally or with the exception of json.dump
CloseWrite(i) ==
    /\ pc[i] \in {"close_w", "close_w_exc"}
    /\ handle' = [handle EXCEPT ![i] = @ \ {[path |-> config_file(i), mode |-> "w"]}]
    /\ log' = [log EXCEPT ![i] = Append(@, Op("close_w", config_file(i), TRUE))]
    /\ IF pc[i] = "close_w"
         THEN /\ pc' = [pc EXCEPT ![i] = "confirm"]
              /\ UNCHANGED <<exitCode, err, atExit>>
         ELSE Raise(i, err[i])
    /\ UNCHANGED <<fs, diskFull, argv, config, stdout, wlog, fs0>>

\* print('Storage adapter configured successfully'), then the script ends
Confirm(i) ==
    /\ pc[i] = "confirm"
    /\ stdout' = [stdout EXCEPT ![i] = Append(@, SuccessLine)]
    /\ pc' = [pc EXCEPT ![i] = "exit0"]
    /\ exitCode' = [exitCode EXCEPT ![i] = 0]
    /\ atExit' = [atExit EXCEPT ![i] = fs]
    /\ UNCHANGED <<fs, diskFull, argv, config, handle, err, log, wlog, fs0>>

Step(i) ==
    \/ Usage(i)
    \/ Call(i)
    \/ OpenRead(i)
    \/ LoadStep(i)
    \/ CloseRead(i)
    \/ Assign(i)
    \/ OpenWrite(i)
    \/ DumpStep(i)
    \/ CloseWrite(i)
    \/ Confirm(i)

(***************************************************************************)
(* Specifications.                                                         *)
(***************************************************************************)
\* the state when the invocations in a start, on a file system among fss
InitWith(fss, a) ==
    /\ fs \in fss
    /\ fs0 = fs
    /\ diskFull \in BOOLEAN
    /\ argv = a
    /\ pc = [i \in DOMAIN a |-> "main"]
    /\ config = [i \in DOMAIN a |-> Null]
    /\ handle = [i \in DOMAIN a |-> {}]
    /\ stdout = [i \in DOMAIN a |-> <<>>]
    /\ exitCode = [i \in DOMAIN a |-> -1]
    /\ err = [i \in DOMAIN a |-> ""]
    /\ log = [i \in DOMAIN a |-> <<>>]
    /\ atExit = [i \in DOMAIN a |-> fs]
    /\ wlog = <<>>

AllFs == {FsWith(f) : f \in {NoFile} \cup UNION {FilesOf(txt) : txt \in InitTexts}}

\* one invocation
Init == \E a \in Argvs : InitWith(AllFs, <<a>>)

Next == \E i \in Procs : Step(i)

Spec == Init /\ [][Next]_vars

\* two invocations, the second started when the first has exited
RunArgvs == {<<Prog, c, p>> : c \in ConfigPaths, p \in StoragePaths}

InitTwice == \E a \in RunArgvs, b \in RunArgvs : InitWith(AllFs, <<a, b>>)

NextTwice == \E i \in Procs : (\A j \in Procs : j < i => Terminated(j)) /\ Step(i)

SpecTwice == InitTwice /\ [][NextTwice]_vars

\* two invocations running concurrently
RaceTexts ==
    LET small == {d \in Docs : Len(d.m) <= 1} IN
    {Dump(d) : d \in small} \cup {Restyle(Dump(d)) : d \in small} \cup {<<>>}

RaceFs == {FsWith(f) : f \in UNION {FilesOf(txt) : txt \in RaceTexts}}

InitRace == \E a \in Argvs, b \in RunArgvs : InitWith(RaceFs, <<a, b>>)

SpecRace == InitRace /\ [][Next]_vars

TypeOK ==
    /\ \A p \in FilePaths : fs[p].exists \in BOOLEAN
    /\ diskFull \in BOOLEAN
    /\ \A i \in Procs : exitCode[i] \in {-1, 0, 1}

(***************************************************************************)
(* Properties.                                                             *)
(***************************************************************************)
STORAGE == <<"storage">>

\* the 'storage' value the documentation prescribes for storage path P
ExpectedStorage(P) ==
    Obj(<< << <<"active">>, Str(<<"optimized-local">>) >>,
           << <<"optimized-local">>,
              Obj(<< << <<"storagePath">>, Str(P) >>,
                     << <<"sizes">>, Arr(<<Int_(600), Int_(1000), Int_(1600), Int_(2000)>>) >>,
                     << <<"quality">>, Int_(82) >>,
                     << <<"keepOriginal">>, Bool(TRUE) >> >>) >> >>)

Pairs(m) == {m[j] : j \in 1..Len(m)}

KeySet(m) == {m[j][1] : j \in 1..Len(m)}

\* the parse of the config file of invocation i, before any run and now
Before(i) == Load(fs0[argv[i][2]].data)

Now(i) == Load(fs[argv[i][2]].data)

HadObject(i) == fs0[argv[i][2]].exists /\ Before(i).ok /\ IsObj(Before(i).v)

OpsOf(l) == [j \in 1..Len(l) |-> l[j].op]

\* C1: after a successful run the file parses to an object whose 'storage'
\* is exactly the prescribed block for the given path, and whose other
\* top-level keys are those of the original object with unchanged values,
\* no key added.
C1_StorageSetSiblingsKept ==
    \A i \in Procs :
      pc[i] = "exit0" =>
        /\ HadObject(i)
        /\ Now(i).ok /\ IsObj(Now(i).v)
        /\ LET m0 == Before(i).v.m
               m1 == Now(i).v.m
           IN /\ HasKey(m1, STORAGE)
              /\ Get(m1, STORAGE) = ExpectedStorage(argv[i][3])
              /\ Cardinality(KeySet(m1)) = Len(m1)
              /\ Pairs(Without(m1, STORAGE)) = Pairs(Without(m0, STORAGE))

C1_Witness ==
    \E i \in Procs :
      /\ pc[i] = "exit0"
      /\ Len(Before(i).v.m) >= 3
      /\ HasKey(Before(i).v.m, STORAGE)
      /\ fs[argv[i][2]].data # fs0[argv[i][2]].data

\* C2: a run that fails because the file is missing, unreadable, not valid
\* JSON or not an object leaves the whole file system as it was, and a file
\* is opened for writing only after the parse and the assignment succeeded.
FailedBeforeWrite(i) ==
    \/ err[i] \in {"FileNotFoundError", "JSONDecodeError", "TypeError"}
    \/ err[i] = "PermissionError" /\ log[i][Len(log[i])].op = "open_r"

C2_FailureLeavesFileUntouched ==
    \A i \in Procs :
      /\ FailedBeforeWrite(i) =>
           /\ fs = fs0
           /\ \A j \in 1..Len(log[i]) : log[i][j].op # "open_w"
      /\ (\E j \in 1..Len(log[i]) : log[i][j].op = "open_w") =>
           /\ IsObj(config[i])
           /\ HasKey(config[i].m, STORAGE)
           /\ Get(config[i].m, STORAGE) = ExpectedStorage(argv[i][3])

C2_Witness ==
    \E i \in Procs :
      /\ pc[i] = "exit1"
      /\ err[i] = "JSONDecodeError"
      /\ fs0[argv[i][2]].data # <<>>
      /\ fs0[argv[i][2]].w

\* C3: a second successful run with the same arguments leaves the file
\* content that the first run left.
C3_Idempotent ==
    (pc[1] = "exit0" /\ Terminated(2) /\ argv[1] = argv[2]) =>
      /\ pc[2] = "exit0"
      /\ fs[argv[2][2]].data = atExit[1][argv[1][2]].data
      /\ fs = atExit[1]

C3_Witness ==
    /\ pc[1] = "exit0" /\ pc[2] = "exit0" /\ argv[1] = argv[2]
    /\ HasKey(Before(1).v.m, STORAGE)
    /\ Len(Before(1).v.m) >= 3
    /\ fs0 # fs

\* C4: when the original object has a 'storage' key, of any shape, the
\* resulting 'storage' value is the prescribed block, a function of the
\* storage path alone: no key of the previous value survives in it.
InnerKeys(v) ==
    IF IsObj(v)
      THEN KeySet(v.m) \cup UNION {IF IsObj(v.m[j][2]) THEN KeySet(v.m[j][2].m) ELSE {}
                                  : j \in 1..Len(v.m)}
      ELSE {}

C4_StorageReplacedNotMerged ==
    \A i \in Procs :
      (pc[i] = "exit0" /\ HasKey(Before(i).v.m, STORAGE)) =>
        LET old == Get(Before(i).v.m, STORAGE)
            new == Get(Now(i).v.m, STORAGE)
        IN /\ InnerKeys(new) = {<<"active">>, <<"optimized-local">>, <<"storagePath">>,
                                <<"sizes">>, <<"quality">>, <<"keepOriginal">>}
           /\ \A k \in InnerKeys(old) \ InnerKeys(ExpectedStorage(argv[i][3])) :
                 k \notin InnerKeys(new)
           /\ Get(new.m, <<"optimized-local">>).m
                = ExpectedStorage(argv[i][3]).m[2][2].m
           /\ Get(new.m, <<"active">>) = Str(<<"optimized-local">>)

C4_Witness ==
    \E i \in Procs :
      /\ pc[i] = "exit0"
      /\ HasKey(Before(i).v.m, STORAGE)
      /\ <<"bucket">> \in InnerKeys(Get(Before(i).v.m, STORAGE))
      /\ <<"optimized-local">> \in InnerKeys(Get(Before(i).v.m, STORAGE))

\* C5: with an argument count other than two the program only prints the
\* usage line and exits with code 1: configure_storage is not entered, no
\* file is opened, read or changed.
C5_WrongArgcOnlyUsage ==
    \A i \in Procs :
      Len(argv[i]) # 3 =>
        /\ pc[i] \in {"main", "exit1"}
        /\ log[i] = <<>>
        /\ handle[i] = {}
        /\ fs = fs0
        /\ config[i] = Null
        /\ pc[i] = "main" => stdout[i] = <<>> /\ exitCode[i] = -1
        /\ pc[i] = "exit1" =>
             /\ exitCode[i] = 1
             /\ stdout[i] = << <<"Usage:">> \o argv[i][1]
                                \o <<"<config_file>", "<storage_path>">> >>

C5_Witness ==
    \E i \in Procs : pc[i] = "exit1" /\ Len(argv[i]) = 4 /\ stdout[i] # <<>>

(***************************************************************************)
(* Two concurrent invocations on one file.                                 *)
(***************************************************************************)
Writes == {j \in 1..Len(wlog) : wlog[j][2] = "write"}

\* the invocation whose write came last
LastWriter == wlog[CHOOSE j \in Writes : \A k \in Writes : k <= j][1]

\* both files were opened for writing (truncated) before either was written
BothTruncatedFirst ==
    Len(wlog) >= 2 /\ wlog[1][2] = "open_w" /\ wlog[2][2] = "open_w"

IsPrefix(a, b) == Len(a) <= Len(b) /\ SubSeq(b, 1, Len(a)) = a

\* both invocations were given two arguments and the same file, which held
\* a JSON object; both have exited and at least one of them has written
RaceOver ==
    /\ Len(argv[1]) = 3
    /\ argv[1][2] = argv[2][2]
    /\ HadObject(1)
    /\ Terminated(1) /\ Terminated(2)
    /\ Writes # {}

\* the document d is the original object with the storage block of path P
PatchOf(d, P) ==
    /\ d.ok /\ IsObj(d.v)
    /\ HasKey(d.v.m, STORAGE)
    /\ Get(d.v.m, STORAGE) = ExpectedStorage(P)
    /\ Pairs(Without(d.v.m, STORAGE)) = Pairs(Without(Before(1).v.m, STORAGE))

\* C6 as stated: after any interleaving of two invocations the file holds a
\* complete valid JSON object with the storage block of the invocation that
\* wrote last and the other keys of the original object.
C6_LastWriteWins ==
    RaceOver => PatchOf(Now(1), argv[LastWriter][3])

\* C6, amended: the file begins with the complete document of the invocation
\* that wrote last, which is the original object with that invocation's
\* storage block; the file is exactly that document unless both truncations
\* preceded both writes and the other document is longer, and then the
\* surplus of the longer document follows it and the file is not valid JSON.
C6_LastWriteWinsUpToTail ==
    RaceOver =>
      LET w == LastWriter
          d == Dump(config[w])
          o == Dump(config[3 - w])
          file == fs[argv[1][2]].data
          tail == BothTruncatedFirst /\ Len(o) > Len(d)
      IN /\ IsPrefix(d, file)
         /\ PatchOf(Load(d), argv[w][3])
         /\ ~tail => file = d
         /\ tail => file = d \o SubSeq(o, Len(d) + 1, Len(o)) /\ ~Now(1).ok

C6_Witness ==
    /\ RaceOver
    /\ BothTruncatedFirst
    /\ Len(Dump(config[1])) # Len(Dump(config[2]))
    /\ ~Now(1).ok

(***************************************************************************)
(* One invocation, continued.                                              *)
(***************************************************************************)
Canon == <<"open_r", "read", "close_r", "open_w", "write", "close_w">>

Holds(i, mode) == \E h \in handle[i] : h.mode = mode

Did(i, op) == \E j \in 1..Len(log[i]) : log[i][j].op = op /\ log[i][j].ok

\* C7: the file operations of an invocation follow the order open, read,
\* close, open for writing, write, close; the read handle is closed before
\* the write handle is opened, also when the parse raises; at most one
\* handle is open at a time and none is left open at exit.
C7_ReadClosedBeforeWrite ==
    \A i \in Procs :
      /\ Len(log[i]) <= Len(Canon)
      /\ OpsOf(log[i]) = SubSeq(Canon, 1, Len(log[i]))
      /\ Cardinality(handle[i]) <= 1
      /\ Holds(i, "r") <=> (Did(i, "open_r") /\ ~Did(i, "close_r"))
      /\ Holds(i, "w") <=> (Did(i, "open_w") /\ ~Did(i, "close_w"))
      /\ Terminated(i) => handle[i] = {}
      /\ err[i] = "JSONDecodeError" /\ Terminated(i) => Did(i, "close_r")

C7_Witness ==
    \E i \in Procs :
      /\ pc[i] = "exit1"
      /\ err[i] = "JSONDecodeError"
      /\ OpsOf(log[i]) = <<"open_r", "read", "close_r">>

\* C8: an invocation opens no path but its first argument, creates no file,
\* and leaves every other file as it was; the storage path is never opened.
C8_OnlyConfigFileTouched ==
    \A i \in Procs :
      /\ \A j \in 1..Len(log[i]) : log[i][j].path = argv[i][2]
      /\ \A h \in handle[i] : h.path = argv[i][2]
      /\ \A p \in FilePaths :
           /\ fs[p].exists = fs0[p].exists
           /\ (\A k \in Procs : Len(argv[k]) = 3 => p # argv[k][2]) => fs[p] = fs0[p]

C8_Witness ==
    \E i \in Procs :
      /\ pc[i] = "exit0"
      /\ argv[i][3] # argv[i][2]
      /\ fs0[argv[i][3]].exists
      /\ fs # fs0

\* C9 as stated: with two arguments and a file holding a valid JSON object,
\* the run ends with exit code 0 and the confirmation message (taken here
\* for a file that can be read and a disk that accepts writes).
C9_ValidObjectExitsZero ==
    \A i \in Procs :
      (Len(argv[i]) = 3 /\ HadObject(i) /\ fs0[argv[i][2]].r /\ ~diskFull
         /\ Terminated(i)) =>
        exitCode[i] = 0 /\ stdout[i] = <<SuccessLine>>

Confirmed(i) == \E j \in 1..Len(stdout[i]) : stdout[i][j] = SuccessLine

\* the message is printed only after a complete write and close
C9_MessageOnlyAfterWrite ==
    \A i \in Procs :
      /\ Confirmed(i) =>
           /\ pc[i] = "exit0" /\ exitCode[i] = 0 /\ err[i] = ""
           /\ Len(log[i]) = Len(Canon) /\ \A j \in 1..Len(log[i]) : log[i][j].ok
           /\ handle[i] = {}
           /\ fs[argv[i][2]].data = Dump(config[i])
      /\ pc[i] = "exit1" => ~Confirmed(i) /\ exitCode[i] = 1
      /\ pc[i] = "exit0" => stdout[i] = <<SuccessLine>>

\* how far in the script a position is
Rank(l) ==
    CASE l = "main" -> 0 [] l = "open_r" -> 1 [] l = "load" -> 2
      [] l \in {"close_r", "close_r_exc"} -> 3 [] l = "assign" -> 4
      [] l = "open_w" -> 5 [] l = "dump" -> 6
      [] l \in {"close_w", "close_w_exc"} -> 7 [] l = "confirm" -> 8
      [] l \in {"exit0", "exit1"} -> 9

Workable(i) ==
    /\ Len(argv[i]) = 3
    /\ HadObject(i)
    /\ fs0[argv[i][2]].r /\ fs0[argv[i][2]].w
    /\ ~diskFull

\* C9, amended: with two arguments and a file that holds a JSON object, can
\* be opened for reading and for writing and is written without an I/O
\* error, the run ends with exit code 0 and the confirmation message; the
\* message is printed only after the file was written and closed, and never
\* on a run that fails.
\* (Termination: every step moves the run forward in the script, no step
\* of such a run raises, and the only exit it reaches is the one with code 0.)
C9_ExitZeroWhenWritable ==
    /\ []C9_MessageOnlyAfterWrite
    /\ [](Workable(1) =>
            /\ pc[1] # "exit1" /\ err[1] = ""
            /\ Terminated(1) =>
                 pc[1] = "exit0" /\ exitCode[1] = 0 /\ stdout[1] = <<SuccessLine>>)
    /\ [](Terminated(1) /\ ~Workable(1) => pc[1] = "exit1")
    /\ [][Rank(pc'[1]) > Rank(pc[1])]_vars

C9_Witness ==
    /\ pc[1] = "exit0"
    /\ Workable(1)
    /\ Confirmed(1)

\* C10: the written object keeps the key order of the original one;
\* 'storage' stays where it was, or comes last when it was absent.
C10_KeyOrderKept ==
    \A i \in Procs :
      pc[i] = "exit0" =>
        LET k0 == Keys(Before(i).v.m)
            k1 == Keys(Now(i).v.m)
        IN k1 = IF HasKey(Before(i).v.m, STORAGE) THEN k0 ELSE Append(k0, STORAGE)

C10_Witness ==
    \E i \in Procs :
      /\ pc[i] = "exit0"
      /\ Len(Before(i).v.m) >= 3
      /\ Keys(Before(i).v.m)[1] = STORAGE

====
